---- MODULE Spec2Model ----
(***************************************************************************)
(* Model of quick_profile_analysis.py: a sequential script that unpacks a  *)
(* gzip-packed profile with an external command, loads the JSON document,  *)
(* prints per-thread statistics and the top functions by sample count, a   *)
(* global summary and a fixed comparison block.                            *)
(*                                                                         *)
(* A nullable JSON value is a sequence of length at most one: <<>> is      *)
(* null (or an absent key), <<v>> is the value v.  A printed line is a     *)
(* tuple whose first element names the line and whose other elements are   *)
(* the values formatted into it.  Times of timeDeltas are in hundredths    *)
(* of a millisecond.                                                       *)
(***************************************************************************)
EXTENDS Integers, Sequences, FiniteSets, TLC

VARIABLES pc, returncode, stderr, file, opened, threads, out,
          total_samples, total_cpu_time, i, k, func_calls, error, exit_code

vars == <<pc, returncode, stderr, file, opened, threads, out,
          total_samples, total_cpu_time, i, k, func_calls, error, exit_code>>

None == <<>>

Some(v) == <<v>>

----------------------------------------------------------------------------
(* Program constants *)

BaselineCpu == 9087

TopN == 5

----------------------------------------------------------------------------
(* Bounds of the input documents *)

MaxThreads == 2

MaxStackLen == 3

MaxSmallCpu == 120

CpuWindow == 150

MaxExtra == 1

----------------------------------------------------------------------------
(* Pure helpers: Python semantics of the expressions the script uses *)

RECURSIVE Sum(_)
Sum(s) == IF s = <<>> THEN 0 ELSE Head(s) + Sum(Tail(s))

Digit(d) ==
    CASE d = 0 -> "0" [] d = 1 -> "1" [] d = 2 -> "2" [] d = 3 -> "3"
      [] d = 4 -> "4" [] d = 5 -> "5" [] d = 6 -> "6" [] d = 7 -> "7"
      [] d = 8 -> "8" [] d = 9 -> "9"

RECURSIVE IntToStr(_)
IntToStr(n) ==
    IF n < 0 THEN "-" \o IntToStr(0 - n)
    ELSE IF n < 10 THEN Digit(n)
    ELSE IntToStr(n \div 10) \o Digit(n % 10)

(* list[idx]: a negative idx counts from the end; outside [-len, len) it raises *)
PyInRange(list, idx) == idx >= 0 - Len(list) /\ idx < Len(list)

PyItem(list, idx) == IF idx >= 0 THEN list[idx + 1] ELSE list[Len(list) + idx + 1]

FloorOfQuotient(num, den) == num \div den

(* int(x) of the quotient num / den, den > 0: truncation toward zero *)
PyIntOfQuotient(num, den) ==
    IF num >= 0 THEN num \div den ELSE 0 - ((0 - num) \div den)

(* Lines 67-72: what one iteration of the loop over samples['stack'] does  *)
(* with the entry e: <<"append", name>>, <<"skip">> or <<"raise", kind>>.  *)
ResolveStep(thread, e) ==
    LET frame == thread.stackTable[1]
        func  == thread.frameFunc
        names == thread.funcName
    IN  IF e = None \/ ~(e[1] < Len(frame)) THEN <<"skip">>
        ELSE IF ~PyInRange(frame, e[1]) THEN <<"raise", "IndexError">>
        ELSE LET frame_idx == PyItem(frame, e[1])
             IN  IF frame_idx = None THEN <<"raise", "TypeError">>
                 ELSE IF ~(frame_idx[1] < Len(func)) THEN <<"skip">>
                 ELSE IF ~PyInRange(func, frame_idx[1]) THEN <<"raise", "IndexError">>
                 ELSE LET func_idx == PyItem(func, frame_idx[1])
                      IN  IF func_idx = None THEN <<"raise", "TypeError">>
                          ELSE IF ~(func_idx[1] < Len(names)) THEN <<"skip">>
                          ELSE IF ~PyInRange(names, func_idx[1]) THEN <<"raise", "IndexError">>
                          ELSE <<"append", PyItem(names, func_idx[1])>>

CounterAddNoMerge(counter, name) == Append(counter, <<name, 1>>)

(* Counter(func_calls): <<name, count>> pairs in order of first occurrence *)
CounterAdd(counter, name) ==
    IF \E j \in 1..Len(counter) : counter[j][1] = name
    THEN [j \in 1..Len(counter) |->
             IF counter[j][1] = name THEN <<name, counter[j][2] + 1>> ELSE counter[j]]
    ELSE Append(counter, <<name, 1>>)

RECURSIVE Counter(_)
Counter(calls) ==
    IF calls = <<>> THEN <<>>
    ELSE CounterAdd(Counter(SubSeq(calls, 1, Len(calls) - 1)), calls[Len(calls)])

RemoveAt(s, j) == SubSeq(s, 1, j - 1) \o SubSeq(s, j + 1, Len(s))

PickLargestLatest(items) ==
    CHOOSE j \in 1..Len(items) :
        /\ \A m \in 1..Len(items) : items[m][2] <= items[j][2]
        /\ \A m \in (j + 1)..Len(items) : items[m][2] < items[j][2]

(* Which of the items with the largest count comes first: the earliest *)
PickLargest(items) ==
    CHOOSE j \in 1..Len(items) :
        /\ \A m \in 1..Len(items) : items[m][2] <= items[j][2]
        /\ \A m \in 1..(j - 1) : items[m][2] < items[j][2]

(* most_common(n): the n largest by count, largest first, ties in the     *)
(* order of the counter (heapq.nlargest is a stable descending sort)      *)
RECURSIVE MostCommon(_, _)
MostCommon(items, n) ==
    IF n = 0 \/ items = <<>> THEN <<>>
    ELSE LET j == PickLargest(items)
         IN  <<items[j]>> \o MostCommon(RemoveAt(items, j), n - 1)

(* Line 97: int((9087 - total_cpu_time) / 9087 * 100) *)
Improvement(t) == PyIntOfQuotient((BaselineCpu - t) * 100, BaselineCpu)

(* Line 33: thread.get('name', f'Thread {i}'), i the 0-based enumerate index *)
DisplayName(thread, idx) ==
    IF thread.name = None THEN "Thread " \o IntToStr(idx) ELSE thread.name[1]

(* Line 34: thread.get('isMainThread', False) *)
IsMain(thread) == IF thread.isMainThread = None THEN FALSE ELSE thread.isMainThread[1]

----------------------------------------------------------------------------
(* The input: what the unpacking command can leave in optimized-profile.json *)

SeqsUpTo(S, n) == UNION {[1..m -> S] : m \in 0..n}

Tables(frame, func, names) == [stackTable |-> frame, frameFunc |-> func, funcName |-> names]

ThreadRecord(name, isMain, length, timeDeltas, cpuDelta, stack, tables) ==
    [name |-> name, isMainThread |-> isMain, length |-> length,
     timeDeltas |-> timeDeltas, threadCPUDelta |-> cpuDelta, stack |-> stack,
     stackTable |-> tables.stackTable, frameFunc |-> tables.frameFunc,
     funcName |-> tables.funcName]

Ints(s) == [j \in 1..Len(s) |-> Some(s[j])]

NoTables == Tables(None, <<>>, <<>>)

GoodTables == Tables(Some(Ints(<<0, 1>>)), Ints(<<0, 1>>), <<"foo", "bar">>)

(* stack, frame, func and name tables with valid, null, negative and too large entries *)
SmallTables ==
    { GoodTables, NoTables,
      Tables(Some(Ints(<<0, 1>>)), Ints(<<10, 11>>), <<"foo", "bar">>),
      Tables(Some(Ints(<<1, 0>>)), Ints(<<0, 1>>), <<"foo", "foo">>),
      Tables(Some(Ints(<<0, 1>>)), Ints(<<0, 1>>), <<>>),
      Tables(Some(Ints(<<0, 1>>)), <<>>, <<"foo", "bar">>),
      Tables(Some(<<>>), Ints(<<0, 1>>), <<"foo", "bar">>),
      Tables(Some(Ints(<<2, 0>>)), Ints(<<0, 1>>), <<"foo", "bar">>),
      Tables(Some(Ints(<<0 - 1, 0>>)), Ints(<<0, 1>>), <<"foo", "bar">>),
      Tables(Some(Ints(<<0, 1>>)), Ints(<<0 - 1, 0>>), <<"foo", "bar">>),
      Tables(Some(Ints(<<0 - 3, 0>>)), Ints(<<0, 1>>), <<"foo", "bar">>),
      Tables(Some(<<None, Some(0)>>), Ints(<<0, 1>>), <<"foo", "bar">>),
      Tables(Some(Ints(<<0, 1>>)), <<None, Some(0)>>, <<"foo", "bar">>) }

StackEntries == {None} \cup {Some(v) : v \in (0 - 1)..2}

SmallStacks == {None} \cup {Some(s) : s \in SeqsUpTo(StackEntries, MaxStackLen)}

SmallThread(stack, tables) ==
    ThreadRecord(None, None, 3, <<150, 250, 300>>, <<100, 200, 300>>, stack, tables)

(* One more function than the report keeps, each sampled at least once *)
WideIdx == 0..TopN

WideName(j) == "f" \o IntToStr(j)

WideTables(names) ==
    Tables(Some([j \in 1..(TopN + 1) |-> Some(j - 1)]),
           [j \in 1..(TopN + 1) |-> Some(j - 1)], names)

DistinctNames == [j \in 1..(TopN + 1) |-> WideName(j - 1)]

RepeatedName == [j \in 1..(TopN + 1) |-> WideName((j - 1) % TopN)]

WidePerms ==
    { p \in [1..(TopN + 1) -> WideIdx] :
        \A a, b \in 1..(TopN + 1) : a # b => p[a] # p[b] }

(* The samples after the first TopN + 1 *)
WideExtras == SeqsUpTo({Some(v) : v \in WideIdx}, MaxExtra)

WideThread(stack, names) ==
    ThreadRecord(Some("worker"), None, TopN + 1, <<>>, <<>>, Some(stack), WideTables(names))

CpuTotals ==
    ((0 - MaxSmallCpu)..MaxSmallCpu)
        \cup ((BaselineCpu - CpuWindow)..(BaselineCpu + CpuWindow))

CpuThread(length, cpu) ==
    ThreadRecord(None, Some(TRUE), length, <<>>, <<cpu>>, None, NoTables)

SimpleThreads ==
    { ThreadRecord(h[1], h[2], s[1], s[2], s[3], r[1], r[2]) :
        h \in { <<None, None>>, <<Some("GeckoMain"), Some(TRUE)>> },
        s \in { <<0, <<>>, <<>>>>,
                <<0, <<150, 250, 300>>, <<100, 200, 300>>>>,
                <<3, <<150, 250, 300>>, <<100, 200, 300>>>> },
        r \in { <<None, NoTables>>,
                <<Some(Ints(<<0, 0, 1>>)), GoodTables>>,
                <<Some(Ints(<<0>>)), Tables(Some(<<None>>), <<>>, <<"foo">>)>> } }

JsonFile(ts) == [state |-> "json", hasThreads |-> TRUE, threads |-> ts]

MissingFile == [state |-> "missing", hasThreads |-> FALSE, threads |-> <<>>]

MalformedFile == [state |-> "malformed", hasThreads |-> FALSE, threads |-> <<>>]

NoThreadsFile == [state |-> "json", hasThreads |-> FALSE, threads |-> <<>>]

(* The file f is one the command can leave behind when it reports success *)
Unpacked(f) ==
    \/ f \in {MissingFile, MalformedFile, NoThreadsFile}
    \/ \E s \in SmallStacks, t \in SmallTables : f = JsonFile(<<SmallThread(s, t)>>)
    \/ \E p \in WidePerms, e \in WideExtras :
          f = JsonFile(<<WideThread(Ints(p) \o e, DistinctNames)>>)
    \/ \E p \in WidePerms : f = JsonFile(<<WideThread(Ints(p), RepeatedName)>>)
    \/ \E n \in (0 - 1)..1, c \in CpuTotals : f = JsonFile(<<CpuThread(n, c)>>)
    \/ \E ts \in SeqsUpTo(SimpleThreads, MaxThreads) : f = JsonFile(ts)

ExitCodes == {0, 1, 2}

StderrTexts == {"", "Out-File : access denied"}

----------------------------------------------------------------------------
(* The script, statement by statement *)

Init ==
    /\ pc = "start"
    /\ returncode = 0
    /\ stderr = ""
    /\ file = MissingFile
    /\ opened = FALSE
    /\ threads = <<>>
    /\ out = <<>>
    /\ total_samples = 0
    /\ total_cpu_time = 0
    /\ i = 0
    /\ k = 0
    /\ func_calls = <<>>
    /\ error = ""
    /\ exit_code = None

UncaughtExitsZero(kind) ==
    /\ pc' = "crashed"
    /\ error' = kind
    /\ exit_code' = Some(0)

(* An uncaught exception: the traceback goes to stderr, the exit status is 1 *)
Uncaught(kind) ==
    /\ pc' = "crashed"
    /\ error' = kind
    /\ exit_code' = Some(1)

FailedOnlyOne(code) == code = 1

(* Line 13: the status that counts as a failed unpacking *)
Failed(code) == code # 0

(* Lines 10-11: print the progress line and run the unpacking command *)
Decompress ==
    /\ pc = "start"
    /\ \E c \in ExitCodes, e \in StderrTexts :
          /\ returncode' = c
          /\ stderr' = e
          /\ IF Failed(c) THEN file' \in {MissingFile, MalformedFile}
             ELSE e = "" /\ Unpacked(file')
    /\ out' = Append(out, <<"unpacking">>)
    /\ pc' = "unpacked"
    /\ UNCHANGED <<opened, threads, total_samples, total_cpu_time, i, k,
                   func_calls, error, exit_code>>

(* Lines 13-15: a nonzero status prints the captured stderr and exits 1 *)
DecompressFailed ==
    /\ pc = "unpacked"
    /\ Failed(returncode)
    /\ out' = Append(out, <<"unpack_error", stderr>>)
    /\ pc' = "exited"
    /\ exit_code' = Some(1)
    /\ UNCHANGED <<returncode, stderr, file, opened, threads, total_samples,
                   total_cpu_time, i, k, func_calls, error>>

(* Lines 18-20: print the progress line, open the file and json.load it *)
Parse ==
    /\ pc = "unpacked"
    /\ ~Failed(returncode)
    /\ out' = Append(out, <<"analysing">>)
    /\ opened' = (file.state # "missing")
    /\ IF file.state = "missing" THEN Uncaught("FileNotFoundError")
       ELSE IF file.state = "malformed" THEN Uncaught("JSONDecodeError")
       ELSE pc' = "loaded" /\ UNCHANGED <<error, exit_code>>
    /\ UNCHANGED <<returncode, stderr, file, threads, total_samples,
                   total_cpu_time, i, k, func_calls>>

(* Lines 22-30: the report header, data['threads'], the thread count *)
ReportHeader ==
    /\ pc = "loaded"
    /\ IF ~file.hasThreads
       THEN /\ out' = out \o << <<"report_header">>, <<"blank">> >>
            /\ Uncaught("KeyError")
            /\ UNCHANGED threads
       ELSE /\ threads' = file.threads
            /\ out' = out \o << <<"report_header">>, <<"blank">>,
                                <<"thread_count", Len(file.threads)>>, <<"blank">> >>
            /\ pc' = "loop"
            /\ UNCHANGED <<error, exit_code>>
    /\ total_samples' = 0
    /\ total_cpu_time' = 0
    /\ i' = 0
    /\ UNCHANGED <<returncode, stderr, file, opened, k, func_calls>>

HasSamplesOrNone(sample_count) == sample_count >= 0

(* Line 42 *)
HasSamples(sample_count) == sample_count > 0

(* Lines 32-42: the next thread's name, flag and sample count *)
ThreadHeader ==
    /\ pc = "loop"
    /\ i < Len(threads)
    /\ LET thread == threads[i + 1]
       IN  /\ out' = out \o << <<"thread", i + 1, DisplayName(thread, i)>>,
                               <<"is_main", IsMain(thread)>>,
                               <<"sample_count", thread.length>> >>
           /\ pc' = IF HasSamples(thread.length) THEN "stats" ELSE "thread_end"
    /\ UNCHANGED <<returncode, stderr, file, opened, threads, total_samples,
                   total_cpu_time, i, k, func_calls, error, exit_code>>

(* Lines 59 and 64: is the loop over the samples entered *)
ResolvesFunctions(thread) ==
    /\ thread.stackTable # None
    /\ thread.stack # None
    /\ thread.stack[1] # <<>>
    /\ thread.funcName # <<>>

SetCpu(total, total_cpu) == total_cpu

(* The running total after a thread's CPU sum is added (line 53) *)
AddCpu(total, total_cpu) == total + total_cpu

(* Lines 43-65: the thread's times, the running totals, the loop's entry *)
ThreadStats ==
    /\ pc = "stats"
    /\ LET thread    == threads[i + 1]
           total_cpu == Sum(thread.threadCPUDelta)
       IN  /\ out' = out \o << <<"total_time", Sum(thread.timeDeltas)>>,
                               <<"cpu_time", total_cpu>> >>
           /\ total_samples' = total_samples + thread.length
           /\ total_cpu_time' = AddCpu(total_cpu_time, total_cpu)
           /\ IF ResolvesFunctions(thread)
              THEN func_calls' = <<>> /\ k' = 1 /\ pc' = "samples"
              ELSE UNCHANGED <<func_calls, k>> /\ pc' = "thread_end"
    /\ UNCHANGED <<returncode, stderr, file, opened, threads, i, error, exit_code>>

(* Lines 66-72: one iteration of the loop over samples['stack'] *)
ResolveSample ==
    /\ pc = "samples"
    /\ k <= Len(threads[i + 1].stack[1])
    /\ LET r == ResolveStep(threads[i + 1], threads[i + 1].stack[1][k])
       IN  IF r[1] = "raise"
           THEN Uncaught(r[2]) /\ UNCHANGED <<func_calls, k>>
           ELSE /\ func_calls' = IF r[1] = "append" THEN Append(func_calls, r[2])
                                 ELSE func_calls
                /\ k' = k + 1
                /\ UNCHANGED <<pc, error, exit_code>>
    /\ UNCHANGED <<returncode, stderr, file, opened, threads, out,
                   total_samples, total_cpu_time, i>>

FuncLines(items) == [j \in 1..Len(items) |-> <<"func", items[j][1], items[j][2]>>]

(* Lines 74-80: after the loop, the most common names with their counts *)
ReportTop ==
    /\ pc = "samples"
    /\ k > Len(threads[i + 1].stack[1])
    /\ out' = IF func_calls # <<>>
              THEN out \o << <<"top_header">> >>
                       \o FuncLines(MostCommon(Counter(func_calls), TopN))
              ELSE out
    /\ pc' = "thread_end"
    /\ UNCHANGED <<returncode, stderr, file, opened, threads, total_samples,
                   total_cpu_time, i, k, func_calls, error, exit_code>>

(* Line 82: the blank line that ends a thread's block; on to the next thread *)
ThreadEnd ==
    /\ pc = "thread_end"
    /\ out' = Append(out, <<"blank">>)
    /\ i' = i + 1
    /\ pc' = "loop"
    /\ UNCHANGED <<returncode, stderr, file, opened, threads, total_samples,
                   total_cpu_time, k, func_calls, error, exit_code>>

(* Lines 84-100: the summary, the comparison block, normal termination *)
Summary ==
    /\ pc = "loop"
    /\ i >= Len(threads)
    /\ out' = out \o << <<"summary_header">>,
                        <<"total_samples", total_samples>>,
                        <<"total_cpu", total_cpu_time>>,
                        <<"blank">>,
                        <<"comparison_header">>,
                        <<"previous_label">>,
                        <<"previous_cpu", BaselineCpu>>,
                        <<"previous_bottleneck">>,
                        <<"blank">>,
                        <<"optimized_label">>,
                        <<"optimized_cpu", total_cpu_time>>,
                        <<"improvement", Improvement(total_cpu_time)>>,
                        <<"blank">>,
                        <<"finished">> >>
    /\ pc' = "done"
    /\ exit_code' = Some(0)
    /\ UNCHANGED <<returncode, stderr, file, opened, threads, total_samples,
                   total_cpu_time, i, k, func_calls, error>>

Next ==
    \/ Decompress
    \/ DecompressFailed
    \/ Parse
    \/ ReportHeader
    \/ ThreadHeader
    \/ ThreadStats
    \/ ResolveSample
    \/ ReportTop
    \/ ThreadEnd
    \/ Summary

Spec == Init /\ [][Next]_vars

----------------------------------------------------------------------------
(* Reading the printed report *)

HasLine(kind) == \E j \in 1..Len(out) : out[j][1] = kind

(* The value formatted into the (only) line of that kind *)
Printed(kind) == out[CHOOSE j \in 1..Len(out) : out[j][1] = kind][2]

(* Thread p (1-based) has been processed to the end of its block *)
Finished(p) == p \in 1..Len(threads) /\ i >= p

(* The lines of thread p's block: from its header to the blank line ending it *)
BlockOf(p) ==
    LET a == CHOOSE j \in 1..Len(out) : out[j][1] = "thread" /\ out[j][2] = p
        b == CHOOSE j \in (a + 1)..Len(out) :
                 /\ out[j][1] = "blank"
                 /\ \A m \in (a + 1)..(j - 1) : out[m][1] # "blank"
    IN  SubSeq(out, a, b)

KindsOf(lines) == [j \in 1..Len(lines) |-> lines[j][1]]

IsFuncLine(line) == line[1] = "func"

(* The <<name, count>> entries of the top list printed for thread p *)
TopListOf(p) ==
    LET fl == SelectSeq(BlockOf(p), IsFuncLine)
    IN  [j \in 1..Len(fl) |-> <<fl[j][2], fl[j][3]>>]

ReportKinds ==
    {"analysing", "report_header", "blank", "thread_count", "thread", "is_main",
     "sample_count", "total_time", "cpu_time", "top_header", "func",
     "summary_header", "total_samples", "total_cpu", "comparison_header",
     "previous_label", "previous_cpu", "previous_bottleneck", "optimized_label",
     "optimized_cpu", "improvement", "finished"}

SummaryKinds ==
    {"summary_header", "total_samples", "total_cpu", "comparison_header",
     "previous_label", "previous_cpu", "previous_bottleneck", "optimized_label",
     "optimized_cpu", "improvement", "finished"}

ThreadKinds ==
    {"thread", "is_main", "sample_count", "total_time", "cpu_time", "top_header", "func"}

----------------------------------------------------------------------------
(* C1: when the unpacking command returns a nonzero status, the script     *)
(* prints the captured stderr text and terminates with a nonzero exit      *)
(* status; in that run the intermediate JSON file is never opened and no   *)
(* line of the parse/summarize phase is printed.                           *)
C1_FailedUnpackingExits ==
    (pc # "start" /\ returncode # 0) =>
        /\ pc \in {"unpacked", "exited"}
        /\ ~opened
        /\ \A j \in 1..Len(out) : out[j][1] \notin ReportKinds
        /\ pc = "exited" =>
              /\ out = << <<"unpacking">>, <<"unpack_error", stderr>> >>
              /\ exit_code # None /\ exit_code[1] # 0
              /\ ~ENABLED Next

C1_Witness == pc = "exited" /\ returncode = 2 /\ stderr # "" /\ file = MalformedFile

----------------------------------------------------------------------------
(* Indices taken 0-based and checked against the bounds of their table *)

InBounds(table, idx) == idx >= 0 /\ idx < Len(table)

(* The stack entry e fails one of the checks the claim C2 lists: it is     *)
(* null or outside stackTable.frame, or the frame index it resolves to is  *)
(* outside frameTable.func, or the func index is outside funcTable.name.   *)
ChainOutOfBounds(thread, e) ==
    LET frame == thread.stackTable[1]
        func  == thread.frameFunc
        names == thread.funcName
    IN  \/ e = None
        \/ ~InBounds(frame, e[1])
        \/ /\ frame[e[1] + 1] # None
           /\ \/ ~InBounds(func, frame[e[1] + 1][1])
              \/ /\ func[frame[e[1] + 1][1] + 1] # None
                 /\ ~InBounds(names, func[frame[e[1] + 1][1] + 1][1])

(* The chain sample -> stack -> frame -> func -> name, every index within  *)
(* the 0-based bounds of its table, ends at that name                      *)
ChainResolvesTo(thread, e, name) ==
    LET frame == thread.stackTable[1]
        func  == thread.frameFunc
        names == thread.funcName
    IN  /\ e # None
        /\ InBounds(frame, e[1])
        /\ frame[e[1] + 1] # None
        /\ InBounds(func, frame[e[1] + 1][1])
        /\ func[frame[e[1] + 1][1] + 1] # None
        /\ InBounds(names, func[frame[e[1] + 1][1] + 1][1])
        /\ names[func[frame[e[1] + 1][1] + 1][1] + 1] = name

(* C2: during function-frequency resolution, a sample whose stack index is *)
(* null or outside the 0-based bounds of stackTable.frame, or whose frame  *)
(* index is outside frameTable.func, or whose func index is outside        *)
(* funcTable.name, is silently skipped: no error is raised, the loop goes  *)
(* on with the next sample and no name is added to the frequency count.    *)
C2_OutOfBoundsSampleSkipped ==
    [][ ( /\ pc = "samples"
          /\ k <= Len(threads[i + 1].stack[1])
          /\ ChainOutOfBounds(threads[i + 1], threads[i + 1].stack[1][k]) )
        => ( /\ pc' = "samples"
             /\ k' = k + 1
             /\ func_calls' = func_calls
             /\ error' = ""
             /\ exit_code' = None ) ]_vars

----------------------------------------------------------------------------
(* round(num / den), den > 0, as Python rounds: to nearest, a tie to even *)
RoundQuotient(num, den) ==
    LET q == num \div den
        r == num - q * den
    IN  IF 2 * r < den THEN q
        ELSE IF 2 * r > den THEN q + 1
        ELSE IF q % 2 = 0 THEN q ELSE q + 1

(* C3 as stated: the integer on the improvement line equals                *)
(* round((9087 - total_cpu_time) / 9087 * 100) and is negative whenever    *)
(* total_cpu_time > 9087.                                                  *)
C3_ImprovementIsRounded ==
    pc = "done" =>
        /\ Printed("improvement")
             = RoundQuotient((9087 - Printed("optimized_cpu")) * 100, 9087)
        /\ Printed("optimized_cpu") > 9087 => Printed("improvement") < 0

(* C3 amended: the integer on the improvement line is                      *)
(* (9087 - total_cpu_time) / 9087 * 100 truncated toward zero; it is not   *)
(* clamped at 0: it is never positive when total_cpu_time > 9087 and is    *)
(* negative as soon as the excess reaches one percent of 9087.             *)
C3_ImprovementIsTruncated ==
    pc = "done" =>
        LET t == Printed("optimized_cpu")
            v == Printed("improvement")
            n == (9087 - t) * 100
        IN  /\ t = total_cpu_time
            /\ n >= 0 => (v >= 0 /\ v * 9087 <= n /\ n < (v + 1) * 9087)
            /\ n < 0 => (v <= 0 /\ v * 9087 >= n /\ n > (v - 1) * 9087)
            /\ (t - 9087) * 100 >= 9087 => v < 0

C3_Witness ==
    /\ pc = "done"
    /\ total_cpu_time > BaselineCpu + 100
    /\ Printed("improvement") = 0 - 1

----------------------------------------------------------------------------
RECURSIVE Total(_)
Total(values) ==
    IF Len(values) = 0 THEN 0
    ELSE Total(SubSeq(values, 1, Len(values) - 1)) + values[Len(values)]

(* The sum of Field(thread) over the threads of ts that Counts(thread) *)
SumOverThreads(ts, Field(_), Counts(_)) ==
    Total([j \in 1..Len(ts) |-> IF Counts(ts[j]) THEN Field(ts[j]) ELSE 0])

LengthOf(thread) == thread.length

CpuSumOf(thread) == Sum(thread.threadCPUDelta)

AnyThread(thread) == TRUE

SampledThread(thread) == thread.length > 0

(* C4 as stated: the printed total_samples is the sum of samples.length    *)
(* over all threads and the printed total_cpu_time is the sum over all     *)
(* threads of the sum of threadCPUDelta; both are 0 for no threads.        *)
C4_TotalsOverAllThreads ==
    pc = "done" =>
        /\ Printed("total_samples") = SumOverThreads(file.threads, LengthOf, AnyThread)
        /\ Printed("total_cpu") = SumOverThreads(file.threads, CpuSumOf, AnyThread)

(* C4 amended: the printed total_samples is the sum of samples.length and  *)
(* the printed total_cpu_time the sum of the threadCPUDelta sums, both     *)
(* taken over the threads whose samples.length is greater than 0; both are *)
(* 0 for a document with an empty thread sequence.                         *)
C4_TotalsOverSampledThreads ==
    pc = "done" =>
        /\ Printed("total_samples")
             = SumOverThreads(file.threads, LengthOf, SampledThread)
        /\ Printed("total_cpu") = SumOverThreads(file.threads, CpuSumOf, SampledThread)
        /\ file.threads = <<>> => (Printed("total_samples") = 0 /\ Printed("total_cpu") = 0)

C4_Witness ==
    /\ pc = "done"
    /\ Len(threads) = 2
    /\ threads[1].length = 0 /\ threads[1].threadCPUDelta # <<>>
    /\ threads[2].length > 0
    /\ Printed("total_cpu") = 600

----------------------------------------------------------------------------
(* C5: a thread whose samples.length is 0 gets a block of exactly the name *)
(* line, the main-thread-flag line and the sample-count line (closed by    *)
(* the blank separator), with no total-time, CPU-time or top-function      *)
(* line whatever its timeDeltas, threadCPUDelta, stack and tables hold,    *)
(* and its processing leaves the global totals unchanged.                  *)
C5_EmptyThreadHeaderOnly ==
    /\ [](\A p \in 1..Len(threads) :
            (Finished(p) /\ threads[p].length = 0) =>
                KindsOf(BlockOf(p)) = <<"thread", "is_main", "sample_count", "blank">>)
    /\ [][ (pc \in {"loop", "stats", "samples", "thread_end"}
              /\ i < Len(threads) /\ threads[i + 1].length = 0)
           => (total_samples' = total_samples /\ total_cpu_time' = total_cpu_time) ]_vars

C5_Witness ==
    /\ Finished(2)
    /\ threads[2].length = 0
    /\ threads[2].threadCPUDelta # <<>>
    /\ threads[2].stack # None
    /\ threads[1].length > 0

----------------------------------------------------------------------------
(* Function-frequency resolution is performed on the thread *)
Resolved(thread) == thread.length > 0 /\ ResolvesFunctions(thread)

(* The number of the thread's samples whose chain resolves to the name *)
ChainCount(thread, name) ==
    Cardinality({s \in 1..Len(thread.stack[1]) :
                    ChainResolvesTo(thread, thread.stack[1][s], name)})

NamesOf(list) == {list[j][1] : j \in 1..Len(list)}

TableNames(thread) == {thread.funcName[j] : j \in 1..Len(thread.funcName)}

(* C6: for a thread on which function-frequency resolution is performed,   *)
(* the reported list has at most five entries, each entry's count is the   *)
(* number of the thread's samples whose sample -> stack -> frame -> func   *)
(* -> name chain resolves to that name, the entries are in descending      *)
(* count order, and no name left out has a count greater than a listed one.*)
C6_TopFiveByChainCount ==
    \A p \in 1..Len(threads) :
        (Finished(p) /\ Resolved(threads[p])) =>
            LET list == TopListOf(p)
            IN  /\ Len(list) <= 5
                /\ \A j \in 1..Len(list) : list[j][2] = ChainCount(threads[p], list[j][1])
                /\ \A a, b \in 1..Len(list) : a < b => list[a][2] >= list[b][2]
                /\ \A n \in TableNames(threads[p]) \ NamesOf(list) :
                       \A j \in 1..Len(list) : ChainCount(threads[p], n) <= list[j][2]

----------------------------------------------------------------------------
(* C7: a thread record with no name field is printed as "Thread <n>" with  *)
(* n its 1-based position, the number of its "Поток <n>" header; a thread  *)
(* with a name field is printed with that name.                            *)
C7_DefaultNameIsPosition ==
    \A j \in 1..Len(out) :
        out[j][1] = "thread" =>
            out[j][3] = IF threads[out[j][2]].name = None
                        THEN "Thread " \o IntToStr(out[j][2])
                        ELSE threads[out[j][2]].name[1]

----------------------------------------------------------------------------
(* A sample of the thread makes the resolution loop raise *)
ThreadRaises(thread) ==
    /\ Resolved(thread)
    /\ \E s \in 1..Len(thread.stack[1]) :
          ResolveStep(thread, thread.stack[1][s])[1] = "raise"

(* The run meets a failure after a successful unpacking *)
FailsAfterUnpacking ==
    \/ file.state \in {"missing", "malformed"}
    \/ ~file.hasThreads
    \/ \E p \in 1..Len(file.threads) : ThreadRaises(file.threads[p])

(* C8 as stated: after a failure that follows a successful unpacking the   *)
(* process ends with an error status and nothing computed before the       *)
(* failure, no per-thread line and no summary line, is on stdout.          *)
C8_NothingEmittedOnFailure ==
    pc = "crashed" =>
        /\ exit_code # None /\ exit_code[1] # 0
        /\ \A j \in 1..Len(out) : out[j][1] \notin (ThreadKinds \cup SummaryKinds)

(* C8 amended: after a failure that follows a successful unpacking the     *)
(* process ends with an error status and prints nothing more: no summary   *)
(* or comparison line is ever printed and no run that meets such a failure *)
(* completes; the lines printed before the failure, the complete blocks of *)
(* the threads preceding the failing one included, stay on stdout.         *)
C8_ReportCutAtFailure ==
    /\ pc = "crashed" =>
          /\ returncode = 0
          /\ exit_code # None /\ exit_code[1] # 0
          /\ ~ENABLED Next
          /\ \A j \in 1..Len(out) : out[j][1] \notin SummaryKinds
          /\ error \notin {"FileNotFoundError", "JSONDecodeError", "KeyError"} =>
                /\ \A p \in 1..i :
                      /\ SubSeq(KindsOf(BlockOf(p)), 1, 3)
                            = <<"thread", "is_main", "sample_count">>
                      /\ BlockOf(p)[2] = <<"is_main", IsMain(threads[p])>>
                      /\ BlockOf(p)[3] = <<"sample_count", threads[p].length>>
                /\ out[Len(out)] = <<"cpu_time", Sum(threads[i + 1].threadCPUDelta)>>
                /\ Cardinality({j \in 1..Len(out) : out[j][1] = "thread"}) = i + 1
    /\ pc = "done" => (exit_code = Some(0) /\ ~FailsAfterUnpacking)
    /\ HasLine("finished") => pc = "done"

C8_Witness ==
    /\ pc = "crashed"
    /\ error = "TypeError"
    /\ i = 1
    /\ HasLine("func")

----------------------------------------------------------------------------
(* The thread of the example: samples.length > 0, the given stacks, stack  *)
(* table and names, and the given frameTable.func                          *)
ExampleThread(thread, func) ==
    /\ thread.length > 0
    /\ thread.stack = Some(Ints(<<0, 0, 1>>))
    /\ thread.stackTable = Some(Ints(<<0, 1>>))
    /\ thread.frameFunc = Ints(func)
    /\ thread.funcName = <<"foo", "bar">>

(* C9 as stated: with samples.stack [0, 0, 1], stackTable.frame [0, 1],    *)
(* frameTable.func [10, 11] and funcTable.name ["foo", "bar"] the          *)
(* resolution yields exactly foo: 2 followed by bar: 1.                    *)
C9_ExampleYieldsFooBar ==
    \A p \in 1..Len(threads) :
        (Finished(p) /\ ExampleThread(threads[p], <<10, 11>>)) =>
            TopListOf(p) = << <<"foo", 2>>, <<"bar", 1>> >>

(* C9 amended: with samples.stack [0, 0, 1], stackTable.frame [0, 1] and   *)
(* funcTable.name ["foo", "bar"], frameTable.func [0, 1] yields exactly    *)
(* foo: 2 followed by bar: 1; frameTable.func [10, 11] indexes past the    *)
(* two names, every sample is skipped and nothing is reported; in both     *)
(* cases the thread is processed to its end.                               *)
C9_ExampleWithValidFuncIndices ==
    /\ \A p \in 1..Len(threads) :
          /\ (Finished(p) /\ ExampleThread(threads[p], <<0, 1>>)) =>
                TopListOf(p) = << <<"foo", 2>>, <<"bar", 1>> >>
          /\ (Finished(p) /\ ExampleThread(threads[p], <<10, 11>>)) =>
                KindsOf(BlockOf(p)) = <<"thread", "is_main", "sample_count",
                                       "total_time", "cpu_time", "blank">>
    /\ (pc = "crashed" /\ i < Len(threads)) =>
          (~ExampleThread(threads[i + 1], <<0, 1>>)
             /\ ~ExampleThread(threads[i + 1], <<10, 11>>))

C9_Witness ==
    /\ Len(threads) = 1
    /\ Finished(1)
    /\ ExampleThread(threads[1], <<0, 1>>)
    /\ TopListOf(1) = << <<"foo", 2>>, <<"bar", 1>> >>

----------------------------------------------------------------------------
(* What the loop of lines 66-72 appends, sample by sample: the name, or  *)
(* "" for a skipped sample (no function of the inputs has that name)    *)
Appended(thread) ==
    [s \in 1..Len(thread.stack[1]) |->
        LET r == ResolveStep(thread, thread.stack[1][s])
        IN  IF r[1] = "append" THEN r[2] ELSE ""]

(* The position in samples.stack of the first sample resolved to the name *)
FirstSeen(calls, name) ==
    CHOOSE s \in 1..Len(calls) :
        calls[s] = name /\ \A r \in 1..(s - 1) : calls[r] # name

(* The names some sample of the thread is resolved to *)
SeenNames(calls) == {calls[s] : s \in 1..Len(calls)} \ {""}

SeenCount(calls, name) == Cardinality({s \in 1..Len(calls) : calls[s] = name})

(* C10: in a thread's top-five list two names with equal counts appear in  *)
(* first-seen order, the order of their first resolved samples in          *)
(* samples.stack; of the names tied in count for the last places the ones  *)
(* first seen earlier are kept.                                            *)
C10_TiesInFirstSeenOrder ==
    \A p \in 1..Len(threads) :
        (Finished(p) /\ Resolved(threads[p])) =>
            LET list  == TopListOf(p)
                calls == Appended(threads[p])
            IN  /\ \A a, b \in 1..Len(list) :
                      (a < b /\ list[a][2] = list[b][2]) =>
                          FirstSeen(calls, list[a][1]) < FirstSeen(calls, list[b][1])
                /\ \A n \in SeenNames(calls) \ NamesOf(list) :
                      \A j \in 1..Len(list) :
                          SeenCount(calls, n) = list[j][2] =>
                              FirstSeen(calls, list[j][1]) < FirstSeen(calls, n)

C10_Witness ==
    /\ Len(threads) = 1
    /\ Finished(1)
    /\ Len(TopListOf(1)) = TopN
    /\ TopListOf(1)[1] = <<"f5", 1>>
    /\ TopListOf(1)[2] = <<"f2", 1>>
    /\ "f0" \in SeenNames(Appended(threads[1])) \ NamesOf(TopListOf(1))

====
